---- MODULE Spec2Model ----
(***************************************************************************)
(* Model of src/util.rs: the ToF32 trait (to_f32_lossy) for f64, u32, u64, *)
(* i64, u128 and usize.                                                    *)
(*                                                                         *)
(* Numbers are modelled at their real width.  An integer is a sign and a   *)
(* 128-bit magnitude (a sequence of bits, most significant first).  An f32 *)
(* is a class (finite, infinite, NaN), a sign, a 24-bit significand m and  *)
(* an exponent e, with value m * 2^e.  An f64 is the same with a 53-bit    *)
(* significand kept as a bit sequence.  Casts round to nearest, ties to    *)
(* even, and saturate the way Rust's `as` does.                            *)
(***************************************************************************)
EXTENDS Integers, Sequences, FiniteSets, TLC

\* ---------------------------------------------------------------- bounds
\* Longest run of leading one-bits in the generated inputs (beyond the
\* all-ones pattern).  It has to exceed the 24-bit significand by two so
\* that round-up, round-down and tie cases all occur.
MaxOnes == 26

\* ------------------------------------------------------- numeric formats
MagBits == 128          \* width of an integer magnitude (u128)
F32Digits == 24         \* f32::MANTISSA_DIGITS
F64Digits == 53         \* f64::MANTISSA_DIGITS
F32MaxExp == 104        \* f32::MAX = (2^24 - 1) * 2^104
F32MinExp == -149       \* smallest f32 subnormal = 2^-149
F64MaxExp == 971        \* f64::MAX = (2^53 - 1) * 2^971
F64MinExp == -1074      \* smallest f64 subnormal = 2^-1074

RECURSIVE Pow2(_)
Pow2(k) == IF k <= 0 THEN 1 ELSE 2 * Pow2(k - 1)

Zeros(n) == [i \in 1..n |-> 0]
Ones(n) == [i \in 1..n |-> 1]

\* Number of significant bits of a bit sequence (0 for zero).
BitLen(s) ==
  LET idx == {i \in 1..Len(s) : s[i] = 1}
  IN IF idx = {} THEN 0
     ELSE Len(s) + 1 - (CHOOSE i \in idx : \A j \in idx : i <= j)

\* Unsigned comparison of two bit sequences of the same length.
BitsLt(a, b) ==
  \E i \in 1..Len(a) : a[i] < b[i] /\ \A j \in 1..(i - 1) : a[j] = b[j]

\* Value of a short bit sequence (at most 30 bits).
RECURSIVE ToNat(_)
ToNat(s) == IF Len(s) = 0 THEN 0
            ELSE 2 * ToNat(SubSeq(s, 1, Len(s) - 1)) + s[Len(s)]

\* The n-bit sequence of a small natural number.
NatBits(v, n) == [i \in 1..n |-> (v \div Pow2(n - i)) % 2]

\* ------------------------------------------------------------- integers
\* The integer with the given sign and magnitude bits, widened to MagBits;
\* len is the number of significant bits of the magnitude.
MkInt(neg, bits) ==
  [neg |-> neg, len |-> BitLen(bits), mag |-> Zeros(MagBits - Len(bits)) \o bits]

IntZero == MkInt(FALSE, <<>>)

IsZeroInt(n) == n.len = 0

IntMagLt(a, b) == a.len < b.len \/ (a.len = b.len /\ BitsLt(a.mag, b.mag))

\* a < b on integers
IntLt(a, b) ==
  IF IsZeroInt(a) /\ IsZeroInt(b) THEN FALSE
  ELSE IF a.neg /\ ~b.neg THEN TRUE
  ELSE IF ~a.neg /\ b.neg THEN FALSE
  ELSE IF a.neg THEN IntMagLt(b, a)
  ELSE IntMagLt(a, b)

IntLe(a, b) == ~IntLt(b, a)

\* The source integer types: signedness and width.
IntTypes == {"u32", "u64", "i64", "u128", "usize"}
Signed(t) == t = "i64"
\* Pointer widths of the supported targets (usize).
PtrWidths == {32, 64}
Width(t, pw) ==
  CASE t = "u32" -> 32
    [] t = "u64" -> 64
    [] t = "i64" -> 64
    [] t = "u128" -> 128
    [] t = "usize" -> pw

\* T::MAX and T::MIN
IntMax(t, pw) ==
  IF Signed(t) THEN MkInt(FALSE, Ones(Width(t, pw) - 1))
  ELSE MkInt(FALSE, Ones(Width(t, pw)))
IntMin(t, pw) ==
  IF Signed(t) THEN MkInt(TRUE, <<1>> \o Zeros(Width(t, pw) - 1))
  ELSE IntZero

\* ------------------------------------------------------------------ f32
\* Canonical form: m in 2^23 .. 2^24-1, or e = F32MinExp and m < 2^23
\* (subnormal or zero).  An infinity carries e = F32MaxExp + 1 so that the
\* magnitude order is the lexicographic order of (e, m).
F32Fin(neg, m, e) == [cls |-> "fin", neg |-> neg, m |-> m, e |-> e]
F32Inf(neg) == [cls |-> "inf", neg |-> neg, m |-> Pow2(F32Digits - 1), e |-> F32MaxExp + 1]
F32NaN == [cls |-> "nan", neg |-> FALSE, m |-> 0, e |-> 0]
F32Zero(neg) == F32Fin(neg, 0, F32MinExp)

F32_MAX == F32Fin(FALSE, Pow2(F32Digits) - 1, F32MaxExp)
F32_MIN == F32Fin(TRUE, Pow2(F32Digits) - 1, F32MaxExp)

F32IsZero(a) == a.cls = "fin" /\ a.m = 0
F32MagLt(a, b) == a.e < b.e \/ (a.e = b.e /\ a.m < b.m)

\* IEEE comparison: every comparison with a NaN is false, -0 = +0.
F32Lt(a, b) ==
  IF a.cls = "nan" \/ b.cls = "nan" THEN FALSE
  ELSE IF F32IsZero(a) /\ F32IsZero(b) THEN FALSE
  ELSE IF a.neg /\ ~b.neg THEN TRUE
  ELSE IF ~a.neg /\ b.neg THEN FALSE
  ELSE IF a.neg THEN F32MagLt(b, a)
  ELSE F32MagLt(a, b)

F32Eq(a, b) ==
  /\ a.cls # "nan"
  /\ b.cls # "nan"
  /\ \/ F32IsZero(a) /\ F32IsZero(b)
     \/ a = b

F32Le(a, b) == F32Lt(a, b) \/ F32Eq(a, b)

\* Round m0 * 2^e0 to an f32, given the first dropped bit (guard) and
\* whether any later dropped bit is set (sticky): nearest, ties to even,
\* overflow to infinity.
RoundF32(neg, m0, e0, guard, sticky) ==
  LET up == guard = 1 /\ (sticky \/ m0 % 2 = 1)
      m1 == IF up THEN m0 + 1 ELSE m0
      m  == IF m1 = Pow2(F32Digits) THEN Pow2(F32Digits - 1) ELSE m1
      e  == IF m1 = Pow2(F32Digits) THEN e0 + 1 ELSE e0
  IN IF e > F32MaxExp THEN F32Inf(neg) ELSE F32Fin(neg, m, e)

\* `n as f32` for an integer n.
IntAsF32(n) ==
  LET L == n.len
      first == MagBits - L + 1
  IN IF L = 0 THEN F32Zero(FALSE)
     ELSE IF L <= F32Digits
       THEN F32Fin(n.neg, ToNat(SubSeq(n.mag, first, MagBits)) * Pow2(F32Digits - L),
                   L - F32Digits)
     ELSE RoundF32(n.neg,
                   ToNat(SubSeq(n.mag, first, first + F32Digits - 1)),
                   L - F32Digits,
                   n.mag[first + F32Digits],
                   \E i \in (first + F32Digits + 1)..MagBits : n.mag[i] = 1)

\* `f as T` for an f32 f and an integer type T: truncation toward zero,
\* saturating at T::MIN and T::MAX, NaN to zero.
F32AsInt(f, t, pw) ==
  LET ml == BitLen(NatBits(f.m, F32Digits))
      mb == NatBits(f.m, F32Digits)
      trunc ==
        IF f.e >= 0
          THEN MkInt(f.neg, SubSeq(mb, F32Digits - ml + 1, F32Digits) \o Zeros(f.e))
          ELSE IF -f.e >= F32Digits THEN IntZero
          ELSE MkInt(f.neg, NatBits(f.m \div Pow2(-f.e), F32Digits))
  IN IF f.cls = "nan" THEN IntZero
     ELSE IF f.cls = "inf" \/ (f.e >= 0 /\ ml + f.e > MagBits)
       THEN (IF f.neg THEN IntMin(t, pw) ELSE IntMax(t, pw))
     ELSE IF IntLt(IntMax(t, pw), trunc) THEN IntMax(t, pw)
     ELSE IF IntLt(trunc, IntMin(t, pw)) THEN IntMin(t, pw)
     ELSE IF IsZeroInt(trunc) THEN IntZero
     ELSE trunc

\* ------------------------------------------------------------------ f64
\* Canonical form: the first bit of mant is 1, or exp = F64MinExp
\* (subnormal or zero).  An infinity carries exp = F64MaxExp + 1.
F64Fin(neg, mant, exp) == [cls |-> "fin", neg |-> neg, mant |-> mant, exp |-> exp]
F64Inf(neg) ==
  [cls |-> "inf", neg |-> neg, mant |-> <<1>> \o Zeros(F64Digits - 1), exp |-> F64MaxExp + 1]
F64NaN == [cls |-> "nan", neg |-> FALSE, mant |-> Zeros(F64Digits), exp |-> 0]
F64Zero(neg) == F64Fin(neg, Zeros(F64Digits), F64MinExp)

F64_MAX == F64Fin(FALSE, Ones(F64Digits), F64MaxExp)
F64_MIN == F64Fin(TRUE, Ones(F64Digits), F64MaxExp)

F64IsZero(a) == a.cls = "fin" /\ BitLen(a.mant) = 0
F64MagLt(a, b) == a.exp < b.exp \/ (a.exp = b.exp /\ BitsLt(a.mant, b.mant))

F64Lt(a, b) ==
  IF a.cls = "nan" \/ b.cls = "nan" THEN FALSE
  ELSE IF F64IsZero(a) /\ F64IsZero(b) THEN FALSE
  ELSE IF a.neg /\ ~b.neg THEN TRUE
  ELSE IF ~a.neg /\ b.neg THEN FALSE
  ELSE IF a.neg THEN F64MagLt(b, a)
  ELSE F64MagLt(a, b)

F64Eq(a, b) ==
  /\ a.cls # "nan"
  /\ b.cls # "nan"
  /\ \/ F64IsZero(a) /\ F64IsZero(b)
     \/ a = b

F64Le(a, b) == F64Lt(a, b) \/ F64Eq(a, b)

\* f64::from(f): the exact widening of an f32.
F64FromF32(f) ==
  LET mb == NatBits(f.m, F32Digits)
      L == BitLen(mb)
  IN IF f.cls = "nan" THEN F64NaN
     ELSE IF f.cls = "inf" THEN F64Inf(f.neg)
     ELSE IF L = 0 THEN F64Zero(f.neg)
     ELSE F64Fin(f.neg,
                 SubSeq(mb, F32Digits - L + 1, F32Digits) \o Zeros(F64Digits - L),
                 f.e - (F64Digits - L))

\* `x as f32` for an f64 x: NaN stays NaN, an infinity stays infinite, a
\* finite value is rounded to nearest (ties to even), which overflows to an
\* infinity above f32::MAX and goes through the f32 subnormals to zero.
\* d is the number of low significand bits the f32 cannot hold.
F64AsF32(x) ==
  LET L == BitLen(x.mant)
      e0 == IF x.exp + L - F32Digits < F32MinExp THEN F32MinExp
            ELSE x.exp + L - F32Digits
      d == e0 - x.exp
      kept == IF d >= F64Digits THEN <<>> ELSE SubSeq(x.mant, 1, F64Digits - d)
      guard == IF d > F64Digits THEN 0 ELSE x.mant[F64Digits - d + 1]
      sticky == \E i \in 1..F64Digits : i >= F64Digits - d + 2 /\ x.mant[i] = 1
  IN IF x.cls = "nan" THEN F32NaN
     ELSE IF x.cls = "inf" THEN F32Inf(x.neg)
     ELSE IF L = 0 THEN F32Zero(x.neg)
     ELSE RoundF32(x.neg, ToNat(kept), e0, guard, sticky)

\* f64::clamp(self, min, max): a NaN is returned unchanged because both
\* comparisons are false.
F64Clamp(x, min, max) ==
  LET y == IF F64Lt(x, min) THEN min ELSE x
  IN IF F64Lt(max, y) THEN max ELSE y

\* ------------------------------------------------------------ to_f32_lossy
\* Each implementation yields the returned f32 (ret) and the operand that was
\* handed to the `as f32` cast (cast), NoCast when the constant f32::MAX was
\* returned without a cast.
NoCast == [none |-> TRUE]
NoResult == [cls |-> "none"]

\* Variant: the cast applied to the unclamped argument.
to_f32_lossy_f64_noclamp(self) == [ret |-> F64AsF32(self), cast |-> self]

\* Variant: narrowing first, clamping the f32 afterwards.
to_f32_lossy_f64_narrowfirst(self) ==
  LET n == F64AsF32(self)
      lo == IF F32Lt(n, F32_MIN) THEN F32_MIN ELSE n
  IN [ret |-> IF F32Lt(F32_MAX, lo) THEN F32_MAX ELSE lo, cast |-> self]

to_f32_lossy_f64(self) ==
  LET c == F64Clamp(self, F64FromF32(F32_MIN), F64FromF32(F32_MAX))
  IN [ret |-> F64AsF32(c), cast |-> c]

\* Variant: `>=` in place of `>`.
to_f32_lossy_u32_ge(self) ==
  IF IntLe(F32AsInt(F32_MAX, "u32", 32), self)
    THEN [ret |-> F32_MAX, cast |-> NoCast]
    ELSE [ret |-> IntAsF32(self), cast |-> self]

\* Variant: `<` in place of `>`.
to_f32_lossy_u32_lt(self) ==
  IF IntLt(self, F32AsInt(F32_MAX, "u32", 32))
    THEN [ret |-> F32_MAX, cast |-> NoCast]
    ELSE [ret |-> IntAsF32(self), cast |-> self]

to_f32_lossy_u32(self) ==
  IF IntLt(F32AsInt(F32_MAX, "u32", 32), self)
    THEN [ret |-> F32_MAX, cast |-> NoCast]
    ELSE [ret |-> IntAsF32(self), cast |-> self]

\* Variant: the threshold of the u32 implementation, `f32::MAX as u32`.
to_f32_lossy_u64_u32thr(self) ==
  IF IntLt(F32AsInt(F32_MAX, "u32", 32), self)
    THEN [ret |-> F32_MAX, cast |-> NoCast]
    ELSE [ret |-> IntAsF32(self), cast |-> self]

to_f32_lossy_u64(self) ==
  IF IntLt(F32AsInt(F32_MAX, "u64", 64), self)
    THEN [ret |-> F32_MAX, cast |-> NoCast]
    ELSE [ret |-> IntAsF32(self), cast |-> self]

\* Variant: `<` in place of `>`.
to_f32_lossy_i64_lt(self) ==
  IF IntLt(self, F32AsInt(F32_MAX, "i64", 64))
    THEN [ret |-> F32_MAX, cast |-> NoCast]
    ELSE [ret |-> IntAsF32(self), cast |-> self]

to_f32_lossy_i64(self) ==
  IF IntLt(F32AsInt(F32_MAX, "i64", 64), self)
    THEN [ret |-> F32_MAX, cast |-> NoCast]
    ELSE [ret |-> IntAsF32(self), cast |-> self]

\* Variant: no clamp, the plain cast.
to_f32_lossy_u128_noclamp(self) == [ret |-> IntAsF32(self), cast |-> self]

to_f32_lossy_u128(self) ==
  IF IntLt(F32AsInt(F32_MAX, "u128", 128), self)
    THEN [ret |-> F32_MAX, cast |-> NoCast]
    ELSE [ret |-> IntAsF32(self), cast |-> self]

to_f32_lossy_usize(self, pw) ==
  IF IntLt(F32AsInt(F32_MAX, "usize", pw), self)
    THEN [ret |-> F32_MAX, cast |-> NoCast]
    ELSE [ret |-> IntAsF32(self), cast |-> self]

\* Dispatch on the source type (the trait method call).
to_f32_lossy(t, pw, v) ==
  CASE t = "f64" -> to_f32_lossy_f64(v)
    [] t = "u32" -> to_f32_lossy_u32(v)
    [] t = "u64" -> to_f32_lossy_u64(v)
    [] t = "i64" -> to_f32_lossy_i64(v)
    [] t = "u128" -> to_f32_lossy_u128(v)
    [] t = "usize" -> to_f32_lossy_usize(v, pw)

\* ------------------------------------------------------------------ inputs
\* A k-bit pattern: r leading ones, then zeros, the last bit set when low = 1.
Pattern(k, r, low) ==
  [i \in 1..k |-> IF i <= r THEN 1 ELSE IF i = k /\ low = 1 THEN 1 ELSE 0]

\* Run lengths used at bit length k: short runs, runs around the f32
\* significand width, and the all-ones pattern.
Runs(k) ==
  {r \in 1..k : r <= 2 \/ (r >= F32Digits - 1 /\ r <= MaxOnes) \/ r = k}

Patterns(k) == {Pattern(k, r, low) : r \in Runs(k), low \in {0, 1}}

\* Inputs of an integer type: zero, T::MIN, T::MAX and every pattern of
\* every bit length the type holds, with both signs for a signed type.
IntInputs(t, pw) ==
  LET w == IF Signed(t) THEN Width(t, pw) - 1 ELSE Width(t, pw)
      signs == IF Signed(t) THEN {FALSE, TRUE} ELSE {FALSE}
  IN {IntZero, IntMin(t, pw), IntMax(t, pw)}
       \cup UNION {{MkInt(s, b) : b \in Patterns(k), s \in signs} : k \in 1..w}

\* Four bits of a hexadecimal digit.
HexBits(ds) == [i \in 1..(4 * Len(ds)) |-> (ds[(i + 3) \div 4] \div Pow2(3 - ((i - 1) % 4))) % 2]

\* 1e308 = 0x11CCF385EBC8A0 * 2^971 (the documentation's example value)
F64_1e308 ==
  F64Fin(FALSE, <<1>> \o HexBits(<<1, 12, 12, 15, 3, 8, 5, 14, 11, 12, 8, 10, 0>>), F64MaxExp)

\* Exponents of the normalized f64 inputs: the ends of the f64 range, the
\* f32 subnormal and normal thresholds, one, and around f32::MAX.
F64Exps ==
  LET k == F64Digits - F32Digits
  IN {F64MinExp, F64MinExp + 1, F32MinExp - F64Digits, F32MinExp - F64Digits + 1,
      F32MinExp - F64Digits + 2, F32MinExp - k - 1, F32MinExp - k,
      1 - F64Digits, 0, F64Digits,
      F32MaxExp - k - 1, F32MaxExp - k, F32MaxExp - k + 1, F64MaxExp - 1, F64MaxExp}

F64Inputs ==
  {F64NaN, F64_1e308}
    \cup {F64Inf(s) : s \in BOOLEAN}
    \cup {F64Zero(s) : s \in BOOLEAN}
    \cup {F64Fin(s, b, e) : s \in BOOLEAN, b \in Patterns(F64Digits), e \in F64Exps}
    \cup UNION {{F64Fin(s, Zeros(F64Digits - k) \o b, F64MinExp) : s \in BOOLEAN, b \in Patterns(k)}
                  : k \in {1, 2, F32Digits, F64Digits - 1}}

Types == IntTypes \cup {"f64"}

Inputs(t, pw) == IF t = "f64" THEN F64Inputs ELSE IntInputs(t, pw)

\* ----------------------------------------------------------- state machine
VARIABLES
  pc,     \* "call": the argument is chosen, "done": the call has returned
  ty,     \* the source type of the call
  ptr,    \* the pointer width of the build target
  input,   \* the argument
  out,    \* the returned f32, NoResult before the call
  cast    \* the operand given to `as f32`, NoCast if there was none

vars == <<pc, ty, ptr, input, out, cast>>

Init ==
  /\ pc = "call"
  /\ ty \in Types
  /\ ptr \in PtrWidths
  /\ input \in Inputs(ty, ptr)
  /\ out = NoResult
  /\ cast = NoCast

Return(r) ==
  /\ pc' = "done"
  /\ out' = r.ret
  /\ cast' = r.cast
  /\ UNCHANGED <<ty, ptr, input>>

Call_f64 == pc = "call" /\ ty = "f64" /\ Return(to_f32_lossy_f64(input))
Call_u32 == pc = "call" /\ ty = "u32" /\ Return(to_f32_lossy_u32(input))
Call_u64 == pc = "call" /\ ty = "u64" /\ Return(to_f32_lossy_u64(input))
Call_i64 == pc = "call" /\ ty = "i64" /\ Return(to_f32_lossy_i64(input))
Call_u128 == pc = "call" /\ ty = "u128" /\ Return(to_f32_lossy_u128(input))
Call_usize == pc = "call" /\ ty = "usize" /\ Return(to_f32_lossy_usize(input, ptr))

Next ==
  \/ Call_f64
  \/ Call_u32
  \/ Call_u64
  \/ Call_i64
  \/ Call_u128
  \/ Call_usize

Spec == Init /\ [][Next]_vars

\* ------------------------------------------------------------- properties
Done == pc = "done"

\* The argument is the maximum / minimum value of its type.
IsTypeMax == IF ty = "f64" THEN input = F64_MAX ELSE input = IntMax(ty, ptr)
IsTypeMin == IF ty = "f64" THEN input = F64_MIN ELSE input = IntMin(ty, ptr)

\* f32::MAX and f32::MIN widened to f64, and f32::MAX as an exact integer.
F64OfF32Max == F64Fin(FALSE, Ones(F32Digits) \o Zeros(F64Digits - F32Digits),
                      F32MaxExp - (F64Digits - F32Digits))
F64OfF32Min == F64Fin(TRUE, Ones(F32Digits) \o Zeros(F64Digits - F32Digits),
                      F32MaxExp - (F64Digits - F32Digits))
IntOfF32Max == MkInt(FALSE, Ones(F32Digits) \o Zeros(F32MaxExp))

\* 2^k as an f32
F32Pow2(neg, k) == F32Fin(neg, Pow2(F32Digits - 1), k - (F32Digits - 1))

\* C1: for each of the six source types, converting the type's maximum value
\* returns exactly f32::MAX.
C1_MaxToMax == (Done /\ IsTypeMax) => out = F32_MAX

\* C2 (as stated): converting i64::MIN and converting f64::MIN both return
\* exactly f32::MIN.
C2_MinToMin == (Done /\ ty \in {"i64", "f64"} /\ IsTypeMin) => out = F32_MIN

\* C2 (amended): converting f64::MIN returns exactly f32::MIN; converting
\* i64::MIN returns the plain cast -2^63, taken without a clamp, which is
\* greater than f32::MIN.
C2_MinAmended ==
  (Done /\ IsTypeMin) =>
    /\ ty = "f64" => out = F32_MIN
    /\ ty = "i64" => out = F32Pow2(TRUE, 63) /\ cast = input /\ F32Lt(F32_MIN, out)

C2_Witness == Done /\ ty = "i64" /\ IsTypeMin /\ out = F32Pow2(TRUE, 63)

\* C3: for every source type and every finite input, the result is a finite
\* f32 (not an infinity, not NaN) within [f32::MIN, f32::MAX].
C3_FiniteInFiniteOut ==
  (Done /\ (ty = "f64" => input.cls = "fin")) =>
    /\ out.cls = "fin"
    /\ F32Le(F32_MIN, out)
    /\ F32Le(out, F32_MAX)

C3_Witness == Done /\ ty = "u128" /\ IsTypeMax /\ out = F32_MAX /\ out.cls = "fin"

\* C4: for every f64, infinities and NaN included, the result of the f64
\* conversion is finite and not NaN.
C4_F64AlwaysFinite == (Done /\ ty = "f64") => out.cls = "fin"

\* C5: the f64 conversion clamps before narrowing: for a non-NaN x the result
\* is f32::MAX when x > f32::MAX, f32::MIN when x < f32::MIN, and the
\* narrowing of x otherwise; the operand of the narrowing cast is always
\* within [f32::MIN, f32::MAX].
C5_ClampThenNarrow ==
  (Done /\ ty = "f64" /\ input.cls # "nan") =>
    /\ F64Lt(F64OfF32Max, input) => out = F32_MAX
    /\ F64Lt(input, F64OfF32Min) => out = F32_MIN
    /\ (F64Le(F64OfF32Min, input) /\ F64Le(input, F64OfF32Max)) =>
         out = F64AsF32(input) /\ cast = input
    /\ F64Le(F64OfF32Min, cast) /\ F64Le(cast, F64OfF32Max)

C5_Witness == Done /\ ty = "f64" /\ input = F64_1e308 /\ out = F32_MAX /\ cast = F64OfF32Max

C7_ZeroToZero ==
  (Done /\ input = (IF ty = "f64" THEN F64Zero(FALSE) ELSE IntZero)) =>
    out = F32Zero(FALSE) /\ cast = input

C7_Witness == Done /\ ty = "i64" /\ input = IntZero /\ out = F32Zero(FALSE)

SrcLe(t, a, b) == IF t = "f64" THEN F64Le(a, b) ELSE IntLe(a, b)

\* Every input of every source type with its conversion result:
\* <<type, pointer width, input, result>>
Results ==
  UNION {{<<t, pw, a, to_f32_lossy(t, pw, a).ret>> : a \in Inputs(t, pw)}
           : t \in Types, pw \in PtrWidths}

\* C10: the conversion is order-preserving within each source type: for any
\* two non-NaN inputs a <= b of one type, the result for a is at most the
\* result for b.
C10_Monotone ==
  Done =>
    \A p \in Results :
      (p[1] = ty /\ p[2] = ptr /\ SrcLe(ty, p[3], input)) => F32Le(p[4], out)

C10_Witness ==
  /\ Done
  /\ ty = "u128"
  /\ input = IntOfF32Max
  /\ out = F32_MAX
  /\ cast = input
  /\ \E p \in Results : p[1] = ty /\ p[2] = ptr /\ IntLt(input, p[3]) /\ p[4] = out

====
